---- MODULE Spec2Model ----
(***************************************************************************)
(* Model of src/network/StageLinqDevices.ts: the discovery handler, the    *)
(* bounded-retry connection driver (connectToDevice) and the readiness     *)
(* barrier (waitForAllDevices).                                            *)
(*                                                                         *)
(* JavaScript runs every handler to its next `await` without interleaving. *)
(* An action below is one such synchronous run.  The only run that is cut  *)
(* in two is the entry of connectToDevice (the write of CONNECTING, then   *)
(* the loop head); `running` keeps every other handler out in between.     *)
(***************************************************************************)
EXTENDS Integers, Sequences, FiniteSets, TLC

\* ------------------------------------------------------------------ bounds
MaxRetriesBound == 3      \* options.maxRetries ranges over 1..MaxRetriesBound
MaxDevices == 2           \* device keys the tracker may hold
MaxCallers == 2           \* concurrent callers of downloadFile

\* --------------------------------------------------------------- constants
Absent == "absent"    \* Map.get() of a key the map does not hold
Null == 0             \* no object; object references are positive integers
NoMatch == <<>>       \* RegExp.exec() returning null
Undefined == <<>>     \* devices.get() of a key the map does not hold
TokenBytes == 16      \* bytes consumed by the sourceId pattern

\* Strings the code inspects character by character are tuples of characters.
OfflineAnalyzer == <<"O","f","f","l","i","n","e","A","n","a","l","y","z","e","r">>
SoundSwitch == <<"S","o","u","n","d","S","w","i","t","c","h">>
Resolume == <<"R","e","s","o","l","u","m","e">>
JM08 == <<"J","M","0","8">>
SSS0 == <<"S","S","S","0">>
JC11 == <<"J","C","1","1">>

UpperChars == <<"A","B","C","D","E","F","G","H","I","J","K","L","M",
                "N","O","P","Q","R","S","T","U","V","W","X","Y","Z">>
LowerChars == <<"a","b","c","d","e","f","g","h","i","j","k","l","m",
                "n","o","p","q","r","s","t","u","v","w","x","y","z">>

\* Case folding of the /i flag.
ToLower(c) ==
  IF \E i \in 1..26 : UpperChars[i] = c
  THEN LowerChars[CHOOSE i \in 1..26 : UpperChars[i] = c]
  ELSE c

\* /^prefix/i.test(name)
RegexPrefixI(prefix, name) ==
  /\ Len(name) >= Len(prefix)
  /\ \A i \in 1..Len(prefix) : ToLower(name[i]) = ToLower(prefix[i])

\* ---------------------------------------------------- discovery announcements
Token1 == [i \in 1..TokenBytes |-> 17]
Token2 == [i \in 1..TokenBytes |-> 34]
ShortToken == [i \in 1..(TokenBytes - 1) |-> 51]

ActingAsSource == "nowplaying"

Deck1 == [address |-> "10.0.0.1", port |-> 50001, source |-> "deck1",
          software |-> [name |-> JC11], token |-> Token1]
\* the unit of Deck1 announcing from a second port: another key, same token
Deck1b == [address |-> "10.0.0.1", port |-> 50003, source |-> "deck1",
           software |-> [name |-> JC11], token |-> Token1]
BadToken == [address |-> "10.0.0.4", port |-> 50004, source |-> "deck4",
             software |-> [name |-> JC11], token |-> ShortToken]
Myself == [address |-> "10.0.0.9", port |-> 50009, source |-> ActingAsSource,
           software |-> [name |-> JC11], token |-> Token2]
Analyzer == [address |-> "10.0.0.8", port |-> 50008, source |-> "laptop",
             software |-> [name |-> OfflineAnalyzer], token |-> Token2]

\* The ConnectionInfo objects that arrive.  The state holds an object by
\* reference: its position in this table.
ConnectionInfos == <<Deck1, Deck1b, BadToken, Myself, Analyzer>>

Announcements == DOMAIN ConnectionInfos

\* ------------------------------------------------------------ pure helpers
\* deviceId(): `${address}:${port}:[${source}/${software.name}]`
deviceId(device) ==
  <<device.address, device.port, device.source, device.software.name>>

HexDigits == <<"0","1","2","3","4","5","6","7","8","9","a","b","c","d","e","f">>

RECURSIVE ToHex(_)
\* Buffer.from(token).toString('hex')
ToHex(bytes) ==
  IF bytes = <<>> THEN <<>>
  ELSE <<HexDigits[(Head(bytes) \div 16) + 1], HexDigits[(Head(bytes) % 16) + 1]>>
       \o ToHex(Tail(bytes))

\* sourceId(): the first 32 hex digits grouped 8-4-4-4-12 and joined by '-';
\* on NoMatch the code's `.splice` throws a TypeError.
sourceId(info) ==
  LET hex == ToHex(info.token) IN
  IF Len(hex) < 2 * TokenBytes THEN NoMatch
  ELSE SubSeq(hex, 1, 8) \o <<"-">> \o SubSeq(hex, 9, 12) \o <<"-">>
       \o SubSeq(hex, 13, 16) \o <<"-">> \o SubSeq(hex, 17, 20) \o <<"-">>
       \o SubSeq(hex, 21, 32)

\* Map keys are strings; the state holds a key string as the first
\* announcement that yields it.
DeviceIdOf == [c \in Announcements |-> deviceId(ConnectionInfos[c])]

SourceIdOf == [c \in Announcements |-> sourceId(ConnectionInfos[c])]

\* the discoveryStatus key of each announcement
KeyOf ==
  [c \in Announcements |->
    CHOOSE k \in Announcements :
      /\ DeviceIdOf[k] = DeviceIdOf[c]
      /\ \A j \in Announcements : DeviceIdOf[j] = DeviceIdOf[c] => k <= j]

Key(c) == KeyOf[c]

\* the `devices` key of each announcement (used where sourceId is defined)
RegistryKeyOf ==
  [c \in Announcements |->
    CHOOSE r \in Announcements :
      /\ SourceIdOf[r] = SourceIdOf[c]
      /\ \A j \in Announcements : SourceIdOf[j] = SourceIdOf[c] => r <= j]

RegistryKey(c) == RegistryKeyOf[c]

Keys == {Key(c) : c \in Announcements}

RegistryKeys == {RegistryKey(c) : c \in {a \in Announcements : SourceIdOf[a] # NoMatch}}

VARIABLES
  options,            \* [maxRetries, downloadDbSources, actingAs]
  discoveryStatus,    \* device key -> ConnectionStatus, or Absent
  devices,            \* registry key -> networkDevice, or Undefined
  stateMapCallback,   \* the deferred queue
  deviceWatchTimeout, \* TRUE while the interval timer is armed
  connectionInfo,     \* connectToDevice's argument, per driver
  attempt,            \* connectToDevice's local `attempt`, per driver
  pc,                 \* where each key's driver is suspended
  running,            \* the key whose driver is mid-run, or Null
  driversStarted,     \* history: connectToDevice calls per key
  wired,              \* the setupStateMap calls (positions in stateMaps) that have
                      \* opened the StateMap service and subscribed to it
  connectCalls,       \* history: networkDevice.connect() calls per key
  connectResolved,    \* history: whether one of those calls has resolved
  connectedEvents,    \* history: `connected` events emitted per key
  readyEvents,        \* history: `ready` events emitted
  stateMaps,          \* history: setupStateMap calls, in call order
  last,               \* history: the handler that ran last (and the key handleDevice saw)
  download,           \* caller -> where its downloadFile call is, and its arguments
  isAvailable,        \* registry key -> whether the file-transfer service reports free
  socketOpen,         \* registry key -> whether its networkDevice's session is open
  leaked              \* device key -> whether a session of one of its attempts is open
                      \* with no reference left to it (failed attempt, replaced entry)

vars == <<options, discoveryStatus, devices, stateMapCallback,
          deviceWatchTimeout, connectionInfo, attempt, pc, running,
          connectCalls, connectResolved, connectedEvents, readyEvents,
          stateMaps, last, download, isAvailable,
          socketOpen, leaked, driversStarted, wired>>

\* callers of downloadFile, the paths they ask for, and a caller that has
\* not called yet
Callers == 1..MaxCallers

Paths == {"/db/m.db", "/art/1.jpg"}

NotCalled == [pc |-> "idle", deviceId |-> Null, path |-> ""]

\* the NetworkDevice a driver creates in its current attempt
NetworkDevice(key) == <<key, attempt[key]>>

\* mutant: a key that is connecting is not filtered
isConnectingNever(device) == FALSE

isConnecting(device) == discoveryStatus[Key(device)] = "CONNECTING"

\* mutant: the CONNECTED test of the filter never matches
isConnectedNever(device) == FALSE

isConnected(device) == discoveryStatus[Key(device)] = "CONNECTED"

\* mutant: the FAILED test of the filter never matches
isFailedNever(device) == FALSE

isFailed(device) == discoveryStatus[Key(device)] = "FAILED"

\* mutant: the test against actingAs.source is missing
isIgnoredNotMyself(device) ==
  LET info == ConnectionInfos[device] IN
  \/ info.software.name = OfflineAnalyzer
  \/ RegexPrefixI(SoundSwitch, info.software.name)
  \/ RegexPrefixI(Resolume, info.software.name)
  \/ info.software.name = JM08
  \/ info.software.name = SSS0

isIgnored(device) ==
  LET info == ConnectionInfos[device] IN
  \/ info.source = options.actingAs.source
  \/ info.software.name = OfflineAnalyzer
  \/ RegexPrefixI(SoundSwitch, info.software.name)
  \/ RegexPrefixI(Resolume, info.software.name)
  \/ info.software.name = JM08
  \/ info.software.name = SSS0

\* Array.from(this.discoveryStatus.values())
StatusValues(status) == {k \in Keys : status[k] # Absent}

\* mutant: `values.length >= 0`
foundDevicesAlways(status) == Cardinality(StatusValues(status)) >= 0

\* mutant: only CONNECTED devices count as found
foundDevicesConnected(status) == \E k \in Keys : status[k] = "CONNECTED"

foundDevices(status) == Cardinality(StatusValues(status)) >= 1

\* mutant: the barrier looks for FAILED where it should look for CONNECTING
allConnectedNoFailed(status) == \A k \in Keys : status[k] # "FAILED"

\* mutant: the barrier waits until every known device is CONNECTED
allConnectedStrict(status) == \A k \in Keys : status[k] \in {Absent, "CONNECTED"}

allConnected(status) == \A k \in Keys : status[k] # "CONNECTING"

Init ==
  /\ options \in [maxRetries : 1..MaxRetriesBound,
                  downloadDbSources : BOOLEAN,
                  actingAs : {[source |-> ActingAsSource]}]
  /\ discoveryStatus = [k \in Keys |-> Absent]
  /\ devices = [r \in RegistryKeys |-> Undefined]
  /\ stateMapCallback = <<>>
  /\ deviceWatchTimeout = TRUE
  /\ connectionInfo = [k \in Keys |-> Null]
  /\ attempt = [k \in Keys |-> 0]
  /\ pc = [k \in Keys |-> "idle"]
  /\ running = Null
  /\ connectCalls = [k \in Keys |-> 0]
  /\ connectResolved = [k \in Keys |-> FALSE]
  /\ connectedEvents = [k \in Keys |-> 0]
  /\ readyEvents = 0
  /\ stateMaps = <<>>
  /\ last = [op |-> "constructor", key |-> Null]
  /\ download = [c \in Callers |-> NotCalled]
  /\ isAvailable = [r \in RegistryKeys |-> TRUE]
  /\ socketOpen = [r \in RegistryKeys |-> FALSE]
  /\ leaked = [k \in Keys |-> FALSE]
  /\ driversStarted = [k \in Keys |-> 0]
  /\ wired = {}

\* ------------------------------------------------------------------ actions
\* an open session whose NetworkDevice is dropped: the attempt that created it
\* threw, or its registry entry is overwritten; nothing disconnects it
abandon(lost, key) == [lost EXCEPT ![key] = TRUE]

\* mutant: `while (attempt <= this.options.maxRetries)`
RetryLoopGuardInclusive(att, maxRetries) == att <= maxRetries

\* `while (attempt < this.options.maxRetries)`
RetryLoopGuard(att, maxRetries) == att < maxRetries

\* this.stateMapCallback.push({ connectionInfo, networkDevice })
\* mutant: the entry is queued twice
pushTwice(queue, info, networkDevice) ==
  Append(Append(queue, [connectionInfo |-> info, networkDevice |-> networkDevice]),
         [connectionInfo |-> info, networkDevice |-> networkDevice])

push(queue, info, networkDevice) ==
  Append(queue, [connectionInfo |-> info, networkDevice |-> networkDevice])

\* mutant: the timer is left armed
clearIntervalSkipped(timer) == timer

\* clearInterval(this.deviceWatchTimeout): the timer is no longer armed
clearInterval(timer) == FALSE

\* setupStateMap(): recorded as the call it makes to open the StateMap service
setupStateMap(calls, info, networkDevice) ==
  Append(calls, [connectionInfo |-> info, networkDevice |-> networkDevice])

RECURSIVE ForEachCallback(_, _)
\* `for (const cb of this.stateMapCallback) this.setupStateMap(...)`
ForEachCallback(calls, queue) ==
  IF queue = <<>> THEN calls
  ELSE ForEachCallback(
         setupStateMap(calls, Head(queue).connectionInfo, Head(queue).networkDevice),
         Tail(queue))

\* handleDevice(): the filter, then the synchronous entry of connectToDevice
\* up to the write of CONNECTING.
handleDevice(info) ==
  LET key == Key(info) IN
  /\ running = Null
  /\ IF \/ isConnected(info)
        \/ isConnecting(info)
        \/ isFailed(info)
        \/ isIgnored(info)
     THEN /\ last' = [op |-> "handleDevice:return", key |-> key]
          /\ UNCHANGED <<discoveryStatus, connectionInfo, attempt, pc, running,
                         driversStarted>>
     ELSE /\ \/ discoveryStatus[key] # Absent
             \/ Cardinality(StatusValues(discoveryStatus)) < MaxDevices
          /\ discoveryStatus' = [discoveryStatus EXCEPT ![key] = "CONNECTING"]
          /\ connectionInfo' = [connectionInfo EXCEPT ![key] = info]
          /\ attempt' = [attempt EXCEPT ![key] = 1]
          /\ pc' = [pc EXCEPT ![key] = "loop"]
          /\ running' = key
          /\ driversStarted' = [driversStarted EXCEPT ![key] = @ + 1]
          /\ last' = [op |-> "handleDevice:connect", key |-> key]
  /\ UNCHANGED <<wired, download, isAvailable, socketOpen, leaked>>
  /\ UNCHANGED <<options, devices, stateMapCallback, deviceWatchTimeout,
                 connectCalls, connectResolved, connectedEvents, readyEvents,
                 stateMaps>>

\* connectToDevice(): the head of the retry loop.  Either the next attempt
\* starts (new NetworkDevice, connect() is awaited) or the loop is left, the
\* key is marked FAILED and the error is thrown.
LoopHead(key) ==
  /\ running = key
  /\ pc[key] = "loop"
  /\ IF RetryLoopGuard(attempt[key], options.maxRetries)
     THEN /\ pc' = [pc EXCEPT ![key] = "connect"]
          /\ connectCalls' = [connectCalls EXCEPT ![key] = @ + 1]
          /\ last' = [op |-> "connectToDevice:attempt", key |-> Null]
          /\ UNCHANGED discoveryStatus
     ELSE /\ pc' = [pc EXCEPT ![key] = "thrown"]
          /\ discoveryStatus' = [discoveryStatus EXCEPT ![key] = "FAILED"]
          /\ last' = [op |-> "connectToDevice:throw", key |-> Null]
          /\ UNCHANGED connectCalls
  /\ running' = Null
  /\ UNCHANGED <<wired, driversStarted, download, isAvailable, socketOpen, leaked>>
  /\ UNCHANGED <<options, connectionInfo, devices, stateMapCallback, deviceWatchTimeout,
                 attempt, connectResolved, connectedEvents, readyEvents,
                 stateMaps>>

\* mutant: the catch block does not count the attempt
CatchNoIncrement(key) ==
  /\ pc' = [pc EXCEPT ![key] = "loop"]
  /\ running' = key
  /\ UNCHANGED <<attempt, discoveryStatus, stateMapCallback, connectedEvents>>

\* the catch block: `attempt += 1; sleep(500)` (the sleep is not awaited),
\* control is back at the loop head in the same run
Catch(key) ==
  /\ attempt' = [attempt EXCEPT ![key] = @ + 1]
  /\ pc' = [pc EXCEPT ![key] = "loop"]
  /\ running' = key
  /\ UNCHANGED <<discoveryStatus, stateMapCallback, connectedEvents>>

\* mutant: the attempt completes without enqueueing the deferred callback
ConnectedWithoutPush(key) ==
  /\ discoveryStatus' = [discoveryStatus EXCEPT ![key] = "CONNECTED"]
  /\ connectedEvents' = [connectedEvents EXCEPT ![key] = @ + 1]
  /\ pc' = [pc EXCEPT ![key] = "returned"]
  /\ UNCHANGED <<attempt, running, stateMapCallback>>

\* the tail of the try block: enqueue, mark CONNECTED, emit, return
Connected(key) ==
  /\ stateMapCallback' = push(stateMapCallback, connectionInfo[key], NetworkDevice(key))
  /\ discoveryStatus' = [discoveryStatus EXCEPT ![key] = "CONNECTED"]
  /\ connectedEvents' = [connectedEvents EXCEPT ![key] = @ + 1]
  /\ pc' = [pc EXCEPT ![key] = "returned"]
  /\ UNCHANGED <<attempt, running>>

\* `await networkDevice.connect()` resolves; setupFileTransferService()
\* computes sourceId and awaits connectToService(FileTransfer)
ConnectResolved(key) ==
  /\ running = Null
  /\ pc[key] = "connect"
  /\ IF SourceIdOf[connectionInfo[key]] = NoMatch
     THEN /\ Catch(key)
          /\ last' = [op |-> "sourceId:throw", key |-> Null]
     ELSE /\ pc' = [pc EXCEPT ![key] = "fileTransfer"]
          /\ last' = [op |-> "connect:resolve", key |-> Null]
          /\ UNCHANGED <<attempt, running, discoveryStatus, stateMapCallback,
                         connectedEvents>>
  /\ connectResolved' = [connectResolved EXCEPT ![key] = TRUE]
  /\ leaked' = IF SourceIdOf[connectionInfo[key]] = NoMatch
               THEN abandon(leaked, key) ELSE leaked
  /\ UNCHANGED <<wired, driversStarted, download, isAvailable, socketOpen>>
  /\ UNCHANGED <<options, connectionInfo, devices, deviceWatchTimeout, connectCalls,
                 readyEvents, stateMaps>>

\* `await networkDevice.connect()` rejects
ConnectRejected(key) ==
  /\ running = Null
  /\ pc[key] = "connect"
  /\ Catch(key)
  /\ last' = [op |-> "connect:reject", key |-> Null]
  /\ UNCHANGED <<wired, driversStarted, download, isAvailable, socketOpen, leaked>>
  /\ UNCHANGED <<options, connectionInfo, devices, deviceWatchTimeout, connectCalls,
                 connectResolved, readyEvents, stateMaps>>

\* mutant: downloadDatabase() is called but not awaited
FileTransferResolvedNoAwait(key) ==
  /\ running = Null
  /\ pc[key] = "fileTransfer"
  /\ devices' = [devices EXCEPT ![RegistryKey(connectionInfo[key])] = NetworkDevice(key)]
  /\ Connected(key)
  /\ last' = [op |-> "fileTransfer:resolve", key |-> Null]
  /\ LET id == RegistryKey(connectionInfo[key]) IN
       /\ leaked' = IF devices[id] # Undefined /\ socketOpen[id]
                    THEN abandon(leaked, devices[id][1]) ELSE leaked
       /\ socketOpen' = [socketOpen EXCEPT ![id] = TRUE]
  /\ UNCHANGED <<wired, driversStarted, download, isAvailable>>
  /\ UNCHANGED <<options, connectionInfo, deviceWatchTimeout, connectCalls, connectResolved,
                 readyEvents, stateMaps>>

\* connectToService(FileTransfer) resolves: the registry entry is written,
\* then the database download is awaited or the attempt completes
FileTransferResolved(key) ==
  /\ running = Null
  /\ pc[key] = "fileTransfer"
  /\ devices' = [devices EXCEPT ![RegistryKey(connectionInfo[key])] = NetworkDevice(key)]
  /\ IF options.downloadDbSources
     THEN /\ pc' = [pc EXCEPT ![key] = "database"]
          /\ UNCHANGED <<attempt, running, discoveryStatus, stateMapCallback,
                         connectedEvents>>
     ELSE Connected(key)
  /\ last' = [op |-> "fileTransfer:resolve", key |-> Null]
  /\ LET id == RegistryKey(connectionInfo[key]) IN
       /\ leaked' = IF devices[id] # Undefined /\ socketOpen[id]
                    THEN abandon(leaked, devices[id][1]) ELSE leaked
       /\ socketOpen' = [socketOpen EXCEPT ![id] = TRUE]
  /\ UNCHANGED <<wired, driversStarted, download, isAvailable>>
  /\ UNCHANGED <<options, connectionInfo, deviceWatchTimeout, connectCalls, connectResolved,
                 readyEvents, stateMaps>>

\* connectToService(FileTransfer) rejects
FileTransferRejected(key) ==
  /\ running = Null
  /\ pc[key] = "fileTransfer"
  /\ Catch(key)
  /\ last' = [op |-> "fileTransfer:reject", key |-> Null]
  /\ leaked' = abandon(leaked, key)
  /\ UNCHANGED <<wired, driversStarted, download, isAvailable, socketOpen>>
  /\ UNCHANGED <<options, connectionInfo, devices, deviceWatchTimeout, connectCalls,
                 connectResolved, readyEvents, stateMaps>>

\* downloadDatabase() resolves
DatabaseResolved(key) ==
  /\ running = Null
  /\ pc[key] = "database"
  /\ Connected(key)
  /\ last' = [op |-> "downloadDatabase:resolve", key |-> Null]
  /\ UNCHANGED <<wired, driversStarted, download, isAvailable, socketOpen, leaked>>
  /\ UNCHANGED <<options, connectionInfo, devices, deviceWatchTimeout, connectCalls,
                 connectResolved, readyEvents, stateMaps>>

\* downloadDatabase() rejects: the await sits inside the try block
DatabaseRejected(key) ==
  /\ running = Null
  /\ pc[key] = "database"
  /\ Catch(key)
  /\ last' = [op |-> "downloadDatabase:reject", key |-> Null]
  /\ UNCHANGED <<wired, driversStarted, download, isAvailable, socketOpen, leaked>>
  /\ UNCHANGED <<options, connectionInfo, devices, deviceWatchTimeout, connectCalls,
                 connectResolved, readyEvents, stateMaps>>

\* one tick of the interval timer armed by waitForAllDevices()
Tick ==
  /\ running = Null
  /\ deviceWatchTimeout
  /\ IF foundDevices(discoveryStatus) /\ allConnected(discoveryStatus)
     THEN /\ deviceWatchTimeout' = clearInterval(deviceWatchTimeout)
          /\ stateMaps' = ForEachCallback(stateMaps, stateMapCallback)
          /\ readyEvents' = readyEvents + 1
          /\ last' = [op |-> "tick:ready", key |-> Null]
     ELSE /\ last' = [op |-> "tick:waiting", key |-> Null]
          /\ UNCHANGED <<deviceWatchTimeout, stateMaps, readyEvents>>
  /\ UNCHANGED <<wired, driversStarted, download, isAvailable, socketOpen, leaked>>
  /\ UNCHANGED <<options, connectionInfo, discoveryStatus, devices, stateMapCallback, attempt,
                 pc, running, connectCalls, connectResolved, connectedEvents>>

\* setupStateMap() after its await: connectToService(StateMap) has resolved,
\* the message and Player subscriptions are made.  (A call whose service never
\* opens, or whose connectToService rejects, stays out of `wired`.)
StateMapResolved(call) ==
  /\ running = Null
  /\ call \notin wired
  /\ wired' = wired \cup {call}
  /\ last' = [op |-> "setupStateMap:resolve", key |-> Null]
  /\ UNCHANGED <<driversStarted, download, isAvailable, socketOpen, leaked>>
  /\ UNCHANGED <<options, discoveryStatus, devices, stateMapCallback,
                 deviceWatchTimeout, connectionInfo, attempt, pc, running,
                 connectCalls, connectResolved, connectedEvents, readyEvents,
                 stateMaps>>

\* networkDevice.disconnect() for every value of the registry
disconnect(open, registry) ==
  [r \in RegistryKeys |-> IF registry[r] # Undefined THEN FALSE ELSE open[r]]

\* mutant: teardown also forgets the devices it disconnects
disconnectAllForgets ==
  /\ running = Null
  /\ socketOpen' = disconnect(socketOpen, devices)
  /\ discoveryStatus' =
       [k \in Keys |->
          IF \E r \in RegistryKeys : devices[r] # Undefined /\ devices[r][1] = k
          THEN Absent ELSE discoveryStatus[k]]
  /\ last' = [op |-> "disconnectAll", key |-> Null]
  /\ UNCHANGED <<wired, driversStarted, download, isAvailable, leaked>>
  /\ UNCHANGED <<options, devices, stateMapCallback,
                 deviceWatchTimeout, connectionInfo, attempt, pc, running,
                 connectCalls, connectResolved, connectedEvents, readyEvents,
                 stateMaps>>

disconnectAll ==
  /\ running = Null
  /\ socketOpen' = disconnect(socketOpen, devices)
  /\ last' = [op |-> "disconnectAll", key |-> Null]
  /\ UNCHANGED <<wired, driversStarted, download, isAvailable, leaked>>
  /\ UNCHANGED <<options, discoveryStatus, devices, stateMapCallback,
                 deviceWatchTimeout, connectionInfo, attempt, pc, running,
                 connectCalls, connectResolved, connectedEvents, readyEvents,
                 stateMaps>>

Next ==
  \/ \E info \in Announcements : handleDevice(info)
  \/ \E key \in Keys : LoopHead(key)
  \/ \E key \in Keys : ConnectResolved(key)
  \/ \E key \in Keys : ConnectRejected(key)
  \/ \E key \in Keys : FileTransferResolved(key)
  \/ \E key \in Keys : FileTransferRejected(key)
  \/ \E key \in Keys : DatabaseResolved(key)
  \/ \E key \in Keys : DatabaseRejected(key)
  \/ Tick

Spec == Init /\ [][Next]_vars

\* a step of some connection driver: a started run is completed, or a call
\* a driver awaits settles one way or the other
DriverStep ==
  \E key \in Keys :
    \/ LoopHead(key)
    \/ ConnectResolved(key) \/ ConnectRejected(key)
    \/ FileTransferResolved(key) \/ FileTransferRejected(key)
    \/ DatabaseResolved(key) \/ DatabaseRejected(key)

\* Fairness: the interval timer keeps ticking while it is armed, and pending
\* driver work (a run in progress, an awaited collaborator call) is not
\* postponed forever.
LiveSpec == Spec /\ WF_vars(Tick) /\ WF_vars(DriverStep)

\* The orchestrator with the completion of setupStateMap and with
\* disconnectAll, which may be called at any time.  The two write `wired` and
\* `socketOpen` (and `last`) only, which no action of Next reads: a behaviour
\* of FullSpec with these steps left out is a behaviour of Spec.
FullNext ==
  \/ Next
  \/ \E call \in DOMAIN stateMaps : StateMapResolved(call)
  \/ disconnectAll

FullSpec == Init /\ [][FullNext]_vars

\* -------------------------------------------------------------- downloadFile
\* everything but the file-transfer service and its callers
orchestratorVars == <<options, discoveryStatus, devices, stateMapCallback,
                      deviceWatchTimeout, connectionInfo, attempt, pc, running,
                      connectCalls, connectResolved, connectedEvents,
                      readyEvents, stateMaps, last, socketOpen,
                      leaked, driversStarted, wired>>

\* downloadFile up to its first await: the registry lookup, then the call of
\* waitTillAvailable; the property read of an unregistered id throws
downloadFile(caller, id, path) ==
  /\ download[caller].pc = "idle"
  /\ download' = [download EXCEPT ![caller] =
       [pc |-> IF devices[id] = Undefined THEN "rejected" ELSE "waitTillAvailable",
        deviceId |-> id, path |-> path]]
  /\ UNCHANGED isAvailable
  /\ UNCHANGED orchestratorVars

\* the service reports free: the promise of waitTillAvailable resolves and
\* the caller's continuation is queued
waitTillAvailable(caller) ==
  /\ download[caller].pc = "waitTillAvailable"
  /\ isAvailable[download[caller].deviceId]
  /\ download' = [download EXCEPT ![caller].pc = "getFile"]
  /\ UNCHANGED isAvailable
  /\ UNCHANGED orchestratorVars

\* the continuation runs: getFile starts the transfer, the service is busy
getFile(caller) ==
  /\ download[caller].pc = "getFile"
  /\ download' = [download EXCEPT ![caller].pc = "transfer"]
  /\ isAvailable' = [isAvailable EXCEPT ![download[caller].deviceId] = FALSE]
  /\ UNCHANGED orchestratorVars

\* the transfer ends: the service is free again, downloadFile returns the file
getFileResolved(caller) ==
  /\ download[caller].pc = "transfer"
  /\ download' = [download EXCEPT ![caller].pc = "returned"]
  /\ isAvailable' = [isAvailable EXCEPT ![download[caller].deviceId] = TRUE]
  /\ UNCHANGED orchestratorVars

\* the orchestrator once the first announcement of Deck1 has connected at its
\* first attempt
Deck1Connected ==
  LET c == 1
      key == Key(c)
      networkDevice == <<key, 1>> IN
  /\ options \in [maxRetries : 2..MaxRetriesBound,
                  downloadDbSources : {FALSE},
                  actingAs : {[source |-> ActingAsSource]}]
  /\ discoveryStatus = [k \in Keys |-> IF k = key THEN "CONNECTED" ELSE Absent]
  /\ devices = [r \in RegistryKeys |->
                  IF r = RegistryKey(c) THEN networkDevice ELSE Undefined]
  /\ stateMapCallback = push(<<>>, c, networkDevice)
  /\ deviceWatchTimeout = TRUE
  /\ connectionInfo = [k \in Keys |-> IF k = key THEN c ELSE Null]
  /\ attempt = [k \in Keys |-> IF k = key THEN 1 ELSE 0]
  /\ pc = [k \in Keys |-> IF k = key THEN "returned" ELSE "idle"]
  /\ running = Null
  /\ connectCalls = [k \in Keys |-> IF k = key THEN 1 ELSE 0]
  /\ connectResolved = [k \in Keys |-> k = key]
  /\ connectedEvents = [k \in Keys |-> IF k = key THEN 1 ELSE 0]
  /\ readyEvents = 0
  /\ stateMaps = <<>>
  /\ last = [op |-> "fileTransfer:resolve", key |-> Null]

DownloadInit ==
  /\ Deck1Connected
  /\ download = [c \in Callers |-> NotCalled]
  /\ isAvailable = [r \in RegistryKeys |-> TRUE]
  /\ socketOpen = [r \in RegistryKeys |-> r = RegistryKey(1)]
  /\ leaked = [k \in Keys |-> FALSE]
  /\ driversStarted = [k \in Keys |-> IF k = Key(1) THEN 1 ELSE 0]
  /\ wired = {}

DownloadNext ==
  \/ \E caller \in Callers, id \in RegistryKeys, path \in Paths :
       downloadFile(caller, id, path)
  \/ \E caller \in Callers : waitTillAvailable(caller)
  \/ \E caller \in Callers : getFile(caller)
  \/ \E caller \in Callers : getFileResolved(caller)

\* downloadFile and the file-transfer service, from a state with one
\* registered device
DownloadSpec == DownloadInit /\ [][DownloadNext]_vars

\* ------------------------------------------------------------------ claims
TrackedKeys == {k \in Keys : discoveryStatus[k] # Absent}

\* number of setupStateMap calls made for a key
SetupCalls(calls, key) ==
  Cardinality({i \in 1..Len(calls) : Key(calls[i].connectionInfo) = key})

\* C1: state-sync bring-up is started and `ready` is emitted only by a tick
\* that finds at least one tracked key and none of them CONNECTING; before
\* such a tick no bring-up has been started for any device.
C1_BarrierSafety ==
  /\ [](stateMaps # <<>> => readyEvents >= 1)
  /\ [][(readyEvents' # readyEvents \/ stateMaps' # stateMaps)
          => /\ last'.op = "tick:ready"
             /\ TrackedKeys # {}
             /\ \A k \in Keys : discoveryStatus[k] # "CONNECTING"]_vars

C1_Witness ==
  /\ last.op = "tick:ready"
  /\ readyEvents = 1
  /\ Len(stateMaps) >= 1

\* C2: `ready` is emitted at most once; once it has been emitted the timer is
\* stopped and no later step emits `ready` or starts a bring-up again.
C2_ReadyAtMostOnce ==
  /\ [](readyEvents <= 1)
  /\ [](readyEvents >= 1 => ~deviceWatchTimeout)
  /\ [][readyEvents >= 1 => (readyEvents' = readyEvents /\ stateMaps' = stateMaps)]_vars

\* a device completed its attempt after the barrier had fired
C2_Witness ==
  /\ readyEvents = 1
  /\ Len(stateMapCallback) > Len(stateMaps)

\* C3: the tick that fires the barrier calls setupStateMap exactly once for every
\* key that is CONNECTED at that tick and for no other key, and no deferred
\* entry is ever brought up twice.
C3_BringUpExactlyConnected ==
  /\ [](\A i, j \in 1..Len(stateMaps) : stateMaps[i] = stateMaps[j] => i = j)
  /\ [][readyEvents' # readyEvents
          => \A k \in Keys :
               SetupCalls(stateMaps', k) - SetupCalls(stateMaps, k)
                 = IF discoveryStatus[k] = "CONNECTED" THEN 1 ELSE 0]_vars

\* the barrier fired with two devices CONNECTED
C3_Witness ==
  /\ last.op = "tick:ready"
  /\ Len(stateMaps) = 2
  /\ Cardinality({k \in Keys : discoveryStatus[k] = "CONNECTED"}) = 2

\* C4: handleDevice for a key that is already CONNECTED or FAILED starts no
\* attempt, emits nothing and leaves tracker, registry and queue unchanged.
C4_HandleDeviceIdempotent ==
  [][\A a \in Announcements :
       (handleDevice(a) /\ discoveryStatus[Key(a)] \in {"CONNECTED", "FAILED"})
         => UNCHANGED <<discoveryStatus, devices, stateMapCallback, connectionInfo, attempt, pc,
                        running, connectCalls, connectedEvents, readyEvents,
                        stateMaps, deviceWatchTimeout>>]_vars

\* a re-announcement of a CONNECTED or FAILED key has been handled
C4_Witness ==
  /\ last.op = "handleDevice:return"
  /\ discoveryStatus[last.key] \in {"CONNECTED", "FAILED"}

\* C5: a status entry is created as CONNECTING, moves only from CONNECTING
\* to CONNECTED or FAILED, and never changes once CONNECTED or FAILED.
C5_StatusMonotonic ==
  [][\A k \in Keys :
       /\ discoveryStatus[k] = Absent
            => discoveryStatus'[k] \in {Absent, "CONNECTING"}
       /\ discoveryStatus[k] = "CONNECTING"
            => discoveryStatus'[k] \in {"CONNECTING", "CONNECTED", "FAILED"}
       /\ discoveryStatus[k] \in {"CONNECTED", "FAILED"}
            => discoveryStatus'[k] = discoveryStatus[k]]_vars

\* one key ended CONNECTED, another FAILED, and a re-announcement of the
\* CONNECTED one arrived afterwards
C5_Witness ==
  /\ last.op = "handleDevice:return"
  /\ discoveryStatus[last.key] = "CONNECTED"
  /\ \E k \in Keys : discoveryStatus[k] = "FAILED"

C7_SucceedsWithinMaxRetries ==
  \A k \in Keys :
    discoveryStatus[k] = "FAILED" => connectCalls[k] >= options.maxRetries

\* C8: a rejected database download does not fail the attempt: the same run
\* enqueues the device, marks it CONNECTED and emits `connected`, and no retry
\* is started.
C8_DownloadFailureNonFatal ==
  [][\A k \in Keys :
       DatabaseRejected(k)
         => /\ discoveryStatus'[k] = "CONNECTED"
            /\ connectedEvents'[k] = connectedEvents[k] + 1
            /\ Len(stateMapCallback') = Len(stateMapCallback) + 1
            /\ attempt'[k] = attempt[k]]_vars

\* C9: once a key is tracked, `ready` is eventually emitted, whether the
\* tracked devices end CONNECTED or FAILED.
C9_FailedDoesNotBlockReady ==
  (TrackedKeys # {}) ~> (readyEvents >= 1)

\* the barrier fired although a device had ended FAILED
C9_Witness ==
  /\ last.op = "tick:ready"
  /\ readyEvents = 1
  /\ \E k \in Keys : discoveryStatus[k] = "FAILED"

\* C10: as long as the tracker is empty, no tick emits `ready` or starts a
\* bring-up.
C10_NoDevicesNoReady ==
  (\A k \in Keys : discoveryStatus[k] = Absent)
    => (readyEvents = 0 /\ stateMaps = <<>> /\ deviceWatchTimeout)

\* a tick ran on an empty tracker
C10_Witness ==
  /\ last.op = "tick:waiting"
  /\ \A k \in Keys : discoveryStatus[k] = Absent

\* announcements the ignore policy names: our own source, or a denylisted
\* software name
IgnoredAnnouncements ==
  {c \in Announcements :
     \/ ConnectionInfos[c].source = ActingAsSource
     \/ ConnectionInfos[c].software.name = OfflineAnalyzer}

\* C11: handling an announcement from our own source or of denylisted software
\* changes nothing, in whatever state it arrives: no status entry, no attempt,
\* no registry or queue entry, no event; and its key is never tracked.
C11_IgnoredAnnouncementNoEffect ==
  /\ [](\A c \in IgnoredAnnouncements : discoveryStatus[Key(c)] = Absent)
  /\ [][\A c \in IgnoredAnnouncements :
          handleDevice(c)
            => UNCHANGED <<discoveryStatus, devices, stateMapCallback,
                           connectionInfo, attempt, pc, running, connectCalls,
                           connectedEvents, readyEvents, stateMaps,
                           deviceWatchTimeout>>]_vars

\* an ignored announcement was handled while a device was connecting
C11_Witness ==
  /\ last.op = "handleDevice:return"
  /\ last.key \in {Key(c) : c \in IgnoredAnnouncements}
  /\ \E k \in Keys : discoveryStatus[k] = "CONNECTING"

\* transfers in flight on the file-transfer service of one registry entry
InFlight(id) ==
  {c \in Callers : download[c].pc = "transfer" /\ download[c].deviceId = id}

\* C12: no two transfers are in flight on one device's file-transfer service,
\* and a transfer starts only when the service reports available.
C12_DownloadsSerialized ==
  /\ [](\A id \in RegistryKeys : Cardinality(InFlight(id)) <= 1)
  /\ [][\A c \in Callers :
          getFile(c) => isAvailable[download[c].deviceId]]_vars

\* a transport session opened for this key is still open: a leaked one, the
\* one of an attempt waiting for the file-transfer service, or a registered one
HasOpenSession(key) ==
  \/ leaked[key]
  \/ pc[key] = "fileTransfer"
  \/ \E r \in RegistryKeys :
       devices[r] # Undefined /\ devices[r][1] = key /\ socketOpen[r]

\* C13: when disconnectAll has returned, no transport session opened before the
\* call is still open, whichever attempt opened it.
C13_DisconnectAllSeversAll ==
  last.op = "disconnectAll" => \A k \in Keys : ~HasOpenSession(k)

\* announcements whose token is not of the length the id pattern needs
MalformedAnnouncements ==
  {c \in Announcements : Len(ConnectionInfos[c].token) # TokenBytes}

\* C14: an announcement with a malformed token is dropped, not retried: once a
\* connection has been opened for it and its id was asked for, no further
\* connection is opened for that announcement.
C14_MalformedTokenNotRetried ==
  [][\A c \in MalformedAnnouncements :
       connectResolved[Key(c)] => connectCalls'[Key(c)] = connectCalls[Key(c)]]_vars

\* entries of the deferred queue for a device key
QueueEntries(queue, key) ==
  {i \in DOMAIN queue : Key(queue[i].connectionInfo) = key}

\* C15: in every reachable state the deferred queue holds exactly one entry
\* for each key whose status is CONNECTED and none for any other key.
C15_QueueMatchesConnected ==
  \A k \in Keys :
    Cardinality(QueueEntries(stateMapCallback, k))
      = IF discoveryStatus[k] = "CONNECTED" THEN 1 ELSE 0

\* one key is queued and CONNECTED while another has FAILED after its session
\* had been opened
C15_Witness ==
  \E k, f \in Keys :
    /\ discoveryStatus[k] = "CONNECTED"
    /\ QueueEntries(stateMapCallback, k) # {}
    /\ discoveryStatus[f] = "FAILED"
    /\ connectResolved[f]

\* C16: at most one connection driver is ever started for a key: the step of
\* handleDevice that starts one finds the key untracked and leaves it
\* CONNECTING, so no other announcement of the key passes the filter.
C16_SingleDriverPerKey ==
  /\ [](\A k \in Keys : driversStarted[k] <= 1)
  /\ [][\A k \in Keys :
          driversStarted'[k] # driversStarted[k]
            => /\ discoveryStatus[k] = Absent
               /\ discoveryStatus'[k] = "CONNECTING"]_vars

\* the key was announced again while its driver was still connecting
C16_Witness ==
  \E k \in Keys :
    /\ last = [op |-> "handleDevice:return", key |-> k]
    /\ discoveryStatus[k] = "CONNECTING"
    /\ driversStarted[k] = 1
    /\ connectCalls[k] >= 1

\* C17: per device, the file-transfer service is opened and registered before
\* the database download starts; the download has finished before the device
\* is queued and marked CONNECTED; and setupStateMap is called for it only
\* after that.
C17_PerDeviceOrdering ==
  [][\A k \in Keys :
       /\ (pc'[k] = "database" /\ pc[k] # "database")
            => /\ pc[k] = "fileTransfer"
               /\ devices'[RegistryKey(connectionInfo[k])] = NetworkDevice(k)
       /\ (discoveryStatus'[k] = "CONNECTED" /\ discoveryStatus[k] # "CONNECTED")
            => /\ pc[k] = IF options.downloadDbSources
                          THEN "database" ELSE "fileTransfer"
               /\ options.downloadDbSources
                    => devices[RegistryKey(connectionInfo[k])] # Undefined
               /\ QueueEntries(stateMapCallback, k) = {}
               /\ QueueEntries(stateMapCallback', k) # {}
       /\ SetupCalls(stateMaps', k) # SetupCalls(stateMaps, k)
            => /\ discoveryStatus[k] = "CONNECTED"
               /\ QueueEntries(stateMapCallback, k) # {}
               /\ pc[k] = "returned"]_vars

\* a device went through all of it: registered, database downloaded, queued,
\* then brought up
C17_Witness ==
  \E k \in Keys :
    /\ options.downloadDbSources
    /\ SetupCalls(stateMaps, k) = 1
    /\ discoveryStatus[k] = "CONNECTED"
    /\ \E r \in RegistryKeys : devices[r] = NetworkDevice(k)

\* C18: a device first announced after the barrier has fired gets no
\* bring-up: setupStateMap has not been called for a key that is untracked or
\* connecting once `ready` was emitted, and is called for nobody afterwards.
C18_LateDeviceNoBringUp ==
  /\ [](\A k \in Keys :
          (readyEvents >= 1 /\ discoveryStatus[k] \in {Absent, "CONNECTING"})
            => SetupCalls(stateMaps, k) = 0)
  /\ [][readyEvents >= 1 => stateMaps' = stateMaps]_vars

\* a device announced after `ready` has completed its attempt: CONNECTED,
\* `connected` emitted, queued, and not brought up
C18_Witness ==
  \E k \in Keys :
    /\ readyEvents = 1
    /\ stateMaps # <<>>
    /\ discoveryStatus[k] = "CONNECTED"
    /\ connectedEvents[k] = 1
    /\ QueueEntries(stateMapCallback, k) # {}
    /\ SetupCalls(stateMaps, k) = 0

\* C19: when `ready` is emitted, every setupStateMap call made for the queue
\* has opened its StateMap service and made its subscriptions.
C19_ReadyAfterBringUp ==
  last.op = "tick:ready" => wired = DOMAIN stateMaps

\* tries a driver makes before it gives up
MaxTries == IF options.maxRetries > 1 THEN options.maxRetries - 1 ELSE 0

C21_DisconnectAllFrame ==
  /\ [][last'.op = "disconnectAll"
          => UNCHANGED <<discoveryStatus, devices, stateMapCallback>>]_vars
  /\ [][\A k \in Keys :
          discoveryStatus[k] = "CONNECTED"
            => /\ discoveryStatus'[k] = "CONNECTED"
               /\ driversStarted'[k] = driversStarted[k]
               /\ connectCalls'[k] = connectCalls[k]]_vars

\* a device was CONNECTED, teardown closed its session, and its key was
\* announced again: the announcement was dropped
C21_Witness ==
  \E k \in Keys :
    /\ last = [op |-> "handleDevice:return", key |-> k]
    /\ discoveryStatus[k] = "CONNECTED"
    /\ \E r \in RegistryKeys : devices[r] = NetworkDevice(k) /\ ~socketOpen[r]
    /\ driversStarted[k] = 1

\* every device the tracker knows has FAILED, and it knows at least one
AllFailed ==
  /\ TrackedKeys # {}
  /\ \A k \in TrackedKeys : discoveryStatus[k] = "FAILED"

\* C22: a tick that finds the tracker non-empty and every known device FAILED
\* fires the barrier: the timer is stopped and `ready` is emitted with no
\* setupStateMap call; and once the barrier has fired that way no call is
\* ever made, whichever device connects later.
C22_AllFailedStillFires ==
  /\ [][(AllFailed /\ last'.op \in {"tick:ready", "tick:waiting"})
          => /\ last'.op = "tick:ready"
             /\ ~deviceWatchTimeout'
             /\ readyEvents' = readyEvents + 1
             /\ stateMaps' = <<>>]_vars
  /\ [][(readyEvents >= 1 /\ stateMaps = <<>>)
          => /\ stateMaps' = <<>>
             /\ readyEvents' = readyEvents
             /\ ~deviceWatchTimeout']_vars

\* the barrier fired on a FAILED device alone, and a device announced later
\* has connected and is queued without bring-up
C22_Witness ==
  \E f, k \in Keys :
    /\ readyEvents = 1
    /\ ~deviceWatchTimeout
    /\ stateMaps = <<>>
    /\ discoveryStatus[f] = "FAILED"
    /\ discoveryStatus[k] = "CONNECTED"
    /\ connectedEvents[k] = 1
    /\ QueueEntries(stateMapCallback, k) # {}

====
